---- MODULE Spec2Model ----
(***************************************************************************)
(* A model of the business-performance chatbot: the keyword dispatcher     *)
(* analyze_question and its eight analysis routines (src/Prompt/promt.py), *)
(* the Streamlit script that owns the session table and the transcript,    *)
(* and the record construction of the synthetic data generator             *)
(* (src/Dataset/dataset.py).                                               *)
(*                                                                         *)
(* Strings the code inspects character by character (questions, keywords)  *)
(* are sequences of one-character strings.  A cell of a table is <<>> when *)
(* it is null (NaN / NaT) and <<v>> when it holds v.  A date is the        *)
(* integer yyyymmdd, so that integer order is calendar order.  Currency    *)
(* amounts of a table are whole units; those of a generated record are in  *)
(* cents.                                                                  *)
(***************************************************************************)
EXTENDS Integers, Sequences, FiniteSets, TLC

VARIABLES
    uploaded_file,  \* the value of the st.file_uploader widget: <<>> or <<file>>
    data,           \* st.session_state.data: <<>> (None) or <<table>>
    messages,       \* st.session_state.messages
    cache,          \* the entries of the st.cache_data caches
    load_error,     \* the last script run called st.error("Error loading file ...")
    run_raised,     \* the exception that ended the last script run, "" when none
    pc,             \* position of a direct call of analyze_question
    question,       \* its question argument
    df,             \* its table argument, as the caller sees it after the call
    response,       \* what the call returned or raised
    records,        \* the list generate_business_data is building
    iteration       \* the locals of its last loop iteration: <<>> or <<locals>>

vars ==
    << uploaded_file, data, messages, cache, load_error, run_raised,
       pc, question, df, response, records, iteration >>

-----------------------------------------------------------------------------
(* Bounds of the model *)

\* the longest table, in rows, that a direct call of analyze_question is given
MaxRows == 2

\* the longest transcript a session is followed to
MaxMessages == 5

\* the most records a generator run is followed to
MaxRecords == 1

-----------------------------------------------------------------------------
(* Strings, str.lower and the substring test *)

UpperCase ==
    << "A","B","C","D","E","F","G","H","I","J","K","L","M",
       "N","O","P","Q","R","S","T","U","V","W","X","Y","Z" >>

LowerCase ==
    << "a","b","c","d","e","f","g","h","i","j","k","l","m",
       "n","o","p","q","r","s","t","u","v","w","x","y","z" >>

\* str.lower on one character
lower_char(c) ==
    IF \E i \in 1..Len(UpperCase) : UpperCase[i] = c
    THEN LowerCase[CHOOSE i \in 1..Len(UpperCase) : UpperCase[i] = c]
    ELSE c

\* str.lower
lower(s) == [i \in 1..Len(s) |-> lower_char(s[i])]

\* word in s, for strings
occurs_in(word, s) ==
    \E k \in 0..(Len(s) - Len(word)) :
        \A j \in 1..Len(word) : s[k + j] = word[j]

\* any(word in s for word in words)
any_word_in(words, s) == \E i \in 1..Len(words) : occurs_in(words[i], s)

-----------------------------------------------------------------------------
(* The keyword lists of analyze_question, in the order of its branches *)

RegionalWords ==
    << <<"r","e","g","i","o","n">>,
       <<"r","e","g","i","o","n","a","l">>,
       <<"g","e","o","g","r","a","p","h","y">>,
       <<"l","o","c","a","t","i","o","n">> >>

MonthlyWords ==
    << <<"m","o","n","t","h","l","y">>,
       <<"t","r","e","n","d">>,
       <<"t","i","m","e">>,
       <<"m","o","n","t","h">>,
       <<"o","v","e","r"," ","t","i","m","e">> >>

MarginWords ==
    << <<"p","r","o","f","i","t">>,
       <<"m","a","r","g","i","n">>,
       <<"p","r","o","f","i","t","a","b","i","l","i","t","y">>,
       <<"c","o","s","t">> >>

CampaignWords ==
    << <<"c","a","m","p","a","i","g","n">>,
       <<"m","a","r","k","e","t","i","n","g">>,
       <<"p","r","o","m","o","t","i","o","n">>,
       <<"c","h","a","n","n","e","l">> >>

SatisfactionWords ==
    << <<"s","a","t","i","s","f","a","c","t","i","o","n">>,
       <<"c","u","s","t","o","m","e","r">>,
       <<"r","a","t","i","n","g">>,
       <<"s","c","o","r","e">> >>

InventoryWords ==
    << <<"i","n","v","e","n","t","o","r","y">>,
       <<"s","t","o","c","k">>,
       <<"w","a","r","e","h","o","u","s","e">>,
       <<"l","e","v","e","l","s">> >>

CategoryWords ==
    << <<"c","a","t","e","g","o","r","y">>,
       <<"p","r","o","d","u","c","t">>,
       <<"d","e","p","a","r","t","m","e","n","t">>,
       <<"s","e","r","v","i","c","e">> >>

SummaryWords ==
    << <<"s","u","m","m","a","r","y">>,
       <<"o","v","e","r","v","i","e","w">>,
       <<"g","e","n","e","r","a","l">>,
       <<"w","h","a","t"," ","i","s"," ","t","h","e"," ","d","a","t","a"," ","s","h","o","w","i","n","g">> >>

-----------------------------------------------------------------------------
(* Questions: the six quick-question buttons and typed questions *)

Button0 == <<"S","h","o","w"," ","m","e"," ","r","e","v","e","n","u","e"," ","p","e","r","f","o","r","m","a","n","c","e"," ","b","y"," ","r","e","g","i","o","n">>

Button1 == <<"S","h","o","w"," ","m","e"," ","m","o","n","t","h","l","y"," ","r","e","v","e","n","u","e"," ","t","r","e","n","d","s">>

Button2 == <<"W","h","i","c","h"," ","p","r","o","d","u","c","t","s"," ","h","a","v","e"," ","t","h","e"," ","h","i","g","h","e","s","t"," ","p","r","o","f","i","t"," ","m","a","r","g","i","n","s","?">>

Button3 == <<"H","o","w"," ","d","o"," ","d","i","f","f","e","r","e","n","t"," ","c","a","m","p","a","i","g","n","s"," ","p","e","r","f","o","r","m","?">>

Button4 == <<"S","h","o","w"," ","c","u","s","t","o","m","e","r"," ","s","a","t","i","s","f","a","c","t","i","o","n"," ","a","n","a","l","y","s","i","s">>

Button5 == <<"S","h","o","w"," ","i","n","v","e","n","t","o","r","y"," ","l","e","v","e","l","s"," ","b","y"," ","c","a","t","e","g","o","r","y">>

QRegionalProfit == <<"r","e","g","i","o","n","a","l"," ","p","r","o","f","i","t"," ","b","r","e","a","k","d","o","w","n">>

QUpperRegion == <<"R","E","G","I","O","N">>

QCostume == <<"C","o","s","t","u","m","e"," ","s","a","l","e","s">>

QProduct == <<"b","e","s","t"," ","p","r","o","d","u","c","t">>

QSummary == <<"O","v","e","r","v","i","e","w">>

QHello == <<"h","e","l","l","o">>

-----------------------------------------------------------------------------
(* Cells, floats and the pandas operations the routines use *)

NULL == <<>>

\* F at the value of x, with x evaluated once
With(x, F(_)) == CHOOSE y \in {F(v) : v \in {x}} : TRUE

notna(c) == c # NULL

\* a float64 that may be NaN or infinite; v counts hundredths
Fin(v) == [k |-> "fin", v |-> v]

NaN == [k |-> "nan", v |-> 0]

PosInf == [k |-> "inf", v |-> 0]

NegInf == [k |-> "-inf", v |-> 0]

\* a > b on float64; false whenever a NaN is involved
float_gt(a, b) ==
    /\ a.k # "nan" /\ b.k # "nan"
    /\ \/ a.k = "inf" /\ b.k # "inf"
       \/ b.k = "-inf" /\ a.k # "-inf"
       \/ a.k = "fin" /\ b.k = "fin" /\ a.v > b.v

int_gt(a, b) == a > b

\* n / d rounded to the nearest integer, halves to the even one (numpy's round), d > 0
round_div_pos(n, d) ==
    LET q == n \div d
        r == n % d
    IN  IF 2 * r < d THEN q
        ELSE IF 2 * r > d THEN q + 1
        ELSE IF q % 2 = 0 THEN q ELSE q + 1

round_div(n, d) == IF d > 0 THEN round_div_pos(n, d) ELSE round_div_pos(-n, -d)

\* float division n / d, the quotient kept in units of 1/scale:
\* x / 0 is +-inf and 0 / 0 is NaN, as pandas and numpy compute it
float_div(n, d, scale) ==
    IF d = 0
    THEN IF n = 0 THEN NaN ELSE IF n > 0 THEN PosInf ELSE NegInf
    ELSE Fin(round_div(n * scale, d))

\* Series.fillna(0): replaces NaN and nothing else
fillna0(x) == IF x.k = "nan" THEN Fin(0) ELSE x

\* (num / den * 100).round(2).fillna(0), in hundredths of a percent
ratio_pct_fillna(num, den) == fillna0(float_div(num, den, 10000))

\* (num / den).round(2).fillna(0), in hundredths
ratio_fillna(num, den) == fillna0(float_div(num, den, 100))

\* (part / total * 100).round(1) on numpy scalars, in tenths of a percent
pct_round1(part, total) == float_div(part, total, 1000)

Range(s) == {s[i] : i \in 1..Len(s)}

RECURSIVE SumOver(_, _)
SumOver(f, S) ==
    IF S = {} THEN 0
    ELSE LET i == CHOOSE j \in S : TRUE IN f[i] + SumOver(f, S \ {i})

Max(S) == CHOOSE x \in S : \A y \in S : y <= x

Min(S) == CHOOSE x \in S : \A y \in S : x <= y

\* every text value a key column can hold, in the order Python sorts strings
TextOrder ==
    << "Apparel", "Cloud Subscription", "Deluxe Widget", "E-Reader", "Electronics",
       "Holiday Sale", "Hoodie", "Jacket", "North", "Polo Shirt", "Software", "South",
       "Summer Sale", "T-Shirt" >>

\* the place of a text value in sorted order
text_rank(k) == CHOOSE i \in 1..Len(TextOrder) : TextOrder[i] = k

\* a set of text values as the sorted list of them
RECURSIVE sorted_text(_)
sorted_text(S) ==
    IF S = {} THEN <<>>
    ELSE LET k == CHOOSE x \in S : \A y \in S : text_rank(x) <= text_rank(y)
         IN  <<k>> \o sorted_text(S \ {k})

\* a set of integers as the ascending list of them
RECURSIVE sorted_ints(_)
sorted_ints(S) ==
    IF S = {} THEN <<>>
    ELSE LET k == CHOOSE x \in S : \A y \in S : x <= y
         IN  <<k>> \o sorted_ints(S \ {k})

\* the rows of a table, as positions
row_ids(t) == 1..Len(t.rows)

\* the values a column holds, nulls left out
col_values(t, col) == {t.rows[i][col][1] : i \in {j \in row_ids(t) : notna(t.rows[j][col])}}

\* the groups of t.groupby(key) for a text column: the distinct non-null keys, sorted
group_keys(t, key) == sorted_text(col_values(t, key))

group_rows(t, key, k) == {i \in row_ids(t) : t.rows[i][key] = <<k>>}

\* Series.sum over the rows S: nulls are skipped, and an all-null or empty sum is 0
col_sum(t, col, S) ==
    LET present == {i \in S : notna(t.rows[i][col])}
    IN  SumOver([i \in present |-> t.rows[i][col][1]], present)

\* the non-null values of a column over the rows S, with their multiplicity
col_count(t, col, S) == Cardinality({i \in S : notna(t.rows[i][col])})

\* Series.mean over the rows S, to two decimals: NaN when no value is present
col_mean(t, col, S) == float_div(col_sum(t, col, S), col_count(t, col, S), 100)

\* sort_values(ascending=False) as a permutation: the positions of xs by value
\* descending, equal values in their original order
order_desc(xs, gt(_, _)) ==
    With(xs,
         LAMBDA v :
            LET before(i) ==
                    Cardinality({j \in 1..Len(v) :
                        \/ gt(v[j], v[i])
                        \/ ~gt(v[i], v[j]) /\ j < i})
            IN  [p \in 1..Len(v) |-> CHOOSE i \in 1..Len(v) : before(i) = p - 1])

reorder(s, perm) == With(<<s, perm>>, LAMBDA a : [p \in 1..Len(a[1]) |-> a[1][a[2][p]]])

\* the first position holding the largest value: Series.idxmax
argmax(xs, gt(_, _)) ==
    With(xs,
         LAMBDA v :
            CHOOSE i \in 1..Len(v) :
                /\ \A j \in 1..Len(v) : ~gt(v[j], v[i])
                /\ \A j \in 1..(i - 1) : gt(v[i], v[j]))

\* s[:n]
head(s, n) == With(s, LAMBDA v : SubSeq(v, 1, IF Len(v) < n THEN Len(v) ELSE n))

\* what a call comes back with
Return(v) == [raised |-> "", value |-> v]

Raise(e) == [raised |-> e]

-----------------------------------------------------------------------------
(* The fixed texts of the routines, word by word.  A report is its heading   *)
(* and the values its f-string interpolates.                                 *)

HelpText ==
    << "I", "can", "help", "you", "analyze", "various", "aspects", "of",
       "your", "business", "data.", "Try", "asking", "about", "**regional",
       "performance**,", "**monthly", "trends**,", "**profit", "margins**,",
       "**campaign", "effectiveness**,", "**customer", "satisfaction**,",
       "or", "**inventory", "levels**." >>

RegionalRequires ==
    << "Regional", "analysis", "requires", "'Region'", "and", "'Revenue'",
       "columns", "in", "your", "data." >>

MonthlyRequires ==
    << "Monthly", "trend", "analysis", "requires", "'Date'", "(datetime",
       "format)", "and", "'Revenue'", "columns", "in", "your", "data." >>

MarginRequires ==
    << "Profit", "analysis", "requires", "'Profit'", "and", "'Revenue'",
       "columns", "in", "your", "data." >>

MarginRequiresGroup ==
    << "Profit", "analysis", "requires", "a", "'Product_Service_Name'", "or",
       "'Category_Department'", "column", "in", "your", "data." >>

CampaignRequires ==
    << "Campaign", "analysis", "requires", "'Campaign_Name'", "and",
       "'Revenue'", "columns", "in", "your", "data." >>

SatisfactionRequires ==
    << "Customer", "satisfaction", "analysis", "requires", "a",
       "'Customer_Satisfaction_Score'", "column", "(0-5", "scale)", "in",
       "your", "data." >>

InventoryRequires ==
    << "Inventory", "analysis", "requires", "'Inventory_Level'", "and",
       "'Category_Department'", "columns", "in", "your", "data." >>

\* (as it would be with the message of the missing-column case returned)
NoInventoryColumns ==
    << "Inventory", "analysis", "requires", "'Inventory_Level'", "and",
       "'Category_Department'", "columns", "in", "your", "data." >>

NoInventoryData ==
    << "No", "inventory", "data", "available", "for", "analysis." >>

CategoryRequires ==
    << "Category", "analysis", "requires", "'Category_Department',",
       "'Revenue',", "and", "'Profit'", "columns", "in", "your", "data." >>

RegionalHeading ==
    << "##", "Regional", "Performance", "Analysis" >>

MonthlyHeading ==
    << "##", "Monthly", "Revenue", "Trends", "Analysis" >>

MarginHeading ==
    << "##", "Profit", "Margin", "Analysis" >>

CampaignHeading ==
    << "##", "Campaign", "Performance", "Analysis" >>

SatisfactionHeading ==
    << "##", "Customer", "Satisfaction", "Analysis" >>

InventoryHeading ==
    << "##", "Inventory", "Analysis" >>

CategoryHeading ==
    << "##", "Category", "Performance", "Analysis" >>

SummaryHeading ==
    << "##", "Business", "Performance", "Summary" >>

-----------------------------------------------------------------------------
(* The analysis routines.  Each returns a dict with "text" and, for a       *)
(* report, "chart" and "dataframe"; or raises what pandas raises.            *)

has_columns(t, cols) == cols \subseteq t.columns

\* groupby(key).agg({'Revenue': .., 'Profit': .., 'Units_Sold': ..}) raises KeyError
\* unless the key and the three aggregated columns are all there
can_aggregate(t, key) == has_columns(t, {key, "Revenue", "Profit", "Units_Sold"})

\* (as it would be with the 'Revenue' test left out)
regional_region_missing(t) == "Region" \notin t.columns

\* 'Region' not in df.columns or 'Revenue' not in df.columns
regional_columns_missing(t) == "Region" \notin t.columns \/ "Revenue" \notin t.columns

\* sort_values puts NaN last, whatever the direction
sort_gt(a, b) == (b.k = "nan" /\ a.k # "nan") \/ float_gt(a, b)

\* df.groupby(key).agg({'Revenue': 'sum', 'Profit': 'sum', 'Units_Sold': 'sum'}),
\* one row per group in sorted key order
agg_sums(t, key) ==
    With(group_keys(t, key),
         LAMBDA keys :
            [i \in 1..Len(keys) |->
                With(group_rows(t, key, keys[i]),
                     LAMBDA S :
                        [ key        |-> keys[i],
                          size       |-> Cardinality(S),
                          Revenue    |-> col_sum(t, "Revenue", S),
                          Profit     |-> col_sum(t, "Profit", S),
                          Units_Sold |-> col_sum(t, "Units_Sold", S) ])])

\* the aggregate with its derived Profit_Margin column
with_margin(rows) ==
    With(rows,
         LAMBDA agg :
            [i \in 1..Len(agg) |->
                [ key           |-> agg[i].key,
                  Revenue       |-> agg[i].Revenue,
                  Profit        |-> agg[i].Profit,
                  Units_Sold    |-> agg[i].Units_Sold,
                  Profit_Margin |-> ratio_pct_fillna(agg[i].Profit, agg[i].Revenue) ]])

sort_by_revenue(rows) ==
    With(rows,
         LAMBDA r : reorder(r, order_desc([i \in 1..Len(r) |-> r[i].Revenue], int_gt)))

\* (as it would be with the groups ranked by revenue)
sort_by_revenue_instead(rows) == sort_by_revenue(rows)

\* sort_values('Profit_Margin', ascending=False)
sort_by_margin(rows) ==
    With(rows,
         LAMBDA r : reorder(r, order_desc([i \in 1..Len(r) |-> r[i].Profit_Margin], sort_gt)))

total_of(rows) ==
    With(rows, LAMBDA r : SumOver([i \in 1..Len(r) |-> r[i].Revenue], 1..Len(r)))

\* Series.mean of floats
float_mean(xs) ==
    With(xs,
         LAMBDA v :
            LET n == Len(v)
                ks == {v[i].k : i \in 1..n}
            IN  IF n = 0 \/ "nan" \in ks \/ ({"inf", "-inf"} \subseteq ks) THEN NaN
                ELSE IF "inf" \in ks THEN PosInf
                ELSE IF "-inf" \in ks THEN NegInf
                ELSE Fin(round_div(SumOver([i \in 1..n |-> v[i].v], 1..n), n)))

regional_report(regional_data) ==
    LET top == regional_data[1]
        total_revenue == total_of(regional_data)
    IN  Return(
            [ text |->
                [ words  |-> RegionalHeading,
                  values |->
                    [ top_region     |-> top.key,
                      top_revenue    |-> top.Revenue,
                      top_percentage |-> pct_round1(top.Revenue, total_revenue),
                      total_revenue  |-> total_revenue,
                      breakdown      |->
                        [i \in 1..Len(regional_data) |->
                            [ region  |-> regional_data[i].key,
                              revenue |-> regional_data[i].Revenue,
                              margin  |-> regional_data[i].Profit_Margin ]] ] ],
              chart |->
                [ kind |-> "bar", x |-> "Region", y |-> "Revenue", data |-> regional_data ],
              dataframe |-> regional_data ])

analyze_regional_performance(t) ==
    IF regional_columns_missing(t)
    THEN Return([text |-> [words |-> RegionalRequires]])
    ELSE IF ~can_aggregate(t, "Region")
    THEN Raise("KeyError")
    ELSE With(sort_by_revenue(with_margin(agg_sums(t, "Region"))),
              LAMBDA regional_data :
                IF Len(regional_data) = 0
                THEN Raise("IndexError")
                ELSE regional_report(regional_data))

\* df_temp = df.copy(); df_temp['Month'] = df_temp['Date'].dt.to_period('M'):
\* the new column lands on the copy, and the caller's table stays as it was
\* (as it would be with the rows grouped by their date)
raw_date(c) == c

\* .dt.to_period('M') of a date cell
month_of(c) == IF notna(c) THEN <<c[1] \div 100>> ELSE NULL

with_month(t) ==
    [ columns |-> t.columns \cup {"Month"},
      rows    |->
        [i \in row_ids(t) |->
            [c \in t.columns \cup {"Month"} |->
                IF c = "Month" THEN month_of(t.rows[i]["Date"]) ELSE t.rows[i][c]]] ]

\* (as it would be without the .copy(): the column lands on the caller's table)
monthly_frames_in_place(t) == [df |-> with_month(t), df_temp |-> with_month(t)]

monthly_frames(t) == [df |-> t, df_temp |-> with_month(t)]

\* the outcome of a routine that works on a frame of its own, with its table
\* argument as the caller holds it afterwards
After(out, t) == [out |-> out, df |-> t]

\* Revenue.pct_change() * 100, in hundredths of a percent
pct_change(revs) ==
    [i \in 1..Len(revs) |->
        IF i = 1 THEN NaN ELSE float_div(revs[i] - revs[i - 1], revs[i - 1], 10000)]

\* the groups of df_temp.groupby('Month') with their sums and the growth column
monthly_aggregate(df_temp) ==
    With(sorted_ints(col_values(df_temp, "Month")),
         LAMBDA months :
            With([i \in 1..Len(months) |->
                    col_sum(df_temp, "Revenue", group_rows(df_temp, "Month", months[i]))],
                 LAMBDA revs :
                    With(pct_change(revs),
                         LAMBDA growth :
                            [i \in 1..Len(months) |->
                                With(group_rows(df_temp, "Month", months[i]),
                                     LAMBDA S :
                                        [ Month          |-> months[i],
                                          Revenue        |-> revs[i],
                                          Units_Sold     |-> col_sum(df_temp, "Units_Sold", S),
                                          Profit         |-> col_sum(df_temp, "Profit", S),
                                          Revenue_Growth |-> growth[i] ])])))

monthly_report(monthly_data) ==
    LET n == Len(monthly_data)
        best == argmax([i \in 1..n |-> monthly_data[i].Revenue], int_gt)
    IN  Return(
            [ text |->
                [ words  |-> MonthlyHeading,
                  values |->
                    [ latest_month   |-> monthly_data[n].Month,
                      latest_revenue |-> monthly_data[n].Revenue,
                      latest_growth  |-> monthly_data[n].Revenue_Growth,
                      best_month     |-> monthly_data[best].Month,
                      best_revenue   |-> monthly_data[best].Revenue,
                      mean_revenue   |-> round_div(total_of(monthly_data), n) ] ],
              chart |->
                [ kind |-> "line", x |-> "Month", y |-> "Revenue", data |-> monthly_data ],
              dataframe |-> monthly_data ])

analyze_monthly_trends(t) ==
    IF ~has_columns(t, {"Date", "Revenue"})
    THEN After(Return([text |-> [words |-> MonthlyRequires]]), t)
    ELSE With(monthly_frames(t),
              LAMBDA frames :
                IF ~can_aggregate(frames.df_temp, "Month")
                THEN After(Raise("KeyError"), frames.df)
                ELSE With(monthly_aggregate(frames.df_temp),
                          LAMBDA monthly_data :
                            IF Len(monthly_data) = 0
                            THEN After(Raise("IndexError"), frames.df)
                            ELSE After(monthly_report(monthly_data), frames.df)))

margin_report(profit_data, group_col) ==
    Return(
        [ text |->
            [ words  |-> MarginHeading,
              values |->
                [ top_item   |-> profit_data[1].key,
                  top_margin |-> profit_data[1].Profit_Margin,
                  avg_margin |->
                    float_mean([i \in 1..Len(profit_data) |-> profit_data[i].Profit_Margin]),
                  performers |->
                    [i \in 1..Len(head(profit_data, 5)) |->
                        [ item    |-> profit_data[i].key,
                          margin  |-> profit_data[i].Profit_Margin,
                          revenue |-> profit_data[i].Revenue ]] ] ],
          chart |->
            [ kind |-> "bar", x |-> "Profit_Margin", y |-> group_col,
              data |-> head(profit_data, 10) ],
          dataframe |-> head(profit_data, 10) ])

\* 'Product_Service_Name' if 'Product_Service_Name' in df.columns else 'Category_Department'
margin_group_col(t) ==
    IF "Product_Service_Name" \in t.columns
    THEN "Product_Service_Name" ELSE "Category_Department"

analyze_profit_margins(t) ==
    IF ~has_columns(t, {"Profit", "Revenue"})
    THEN Return([text |-> [words |-> MarginRequires]])
    ELSE IF margin_group_col(t) \notin t.columns
    THEN Return([text |-> [words |-> MarginRequiresGroup]])
    ELSE IF ~can_aggregate(t, margin_group_col(t))
    THEN Raise("KeyError")
    ELSE With(sort_by_margin(with_margin(agg_sums(t, margin_group_col(t)))),
              LAMBDA profit_data :
                IF Len(profit_data) = 0
                THEN Raise("IndexError")
                ELSE margin_report(profit_data, margin_group_col(t)))

\* the aggregate with its Avg_Order_Value column: revenue over the rows of the group
with_order_value(rows) ==
    With(rows,
         LAMBDA agg :
            [i \in 1..Len(agg) |->
                [ key             |-> agg[i].key,
                  Revenue         |-> agg[i].Revenue,
                  Units_Sold      |-> agg[i].Units_Sold,
                  Profit          |-> agg[i].Profit,
                  Avg_Order_Value |-> ratio_fillna(agg[i].Revenue, agg[i].size) ]])

campaign_report(campaign_data) ==
    LET total_revenue == total_of(campaign_data)
    IN  Return(
            [ text |->
                [ words  |-> CampaignHeading,
                  values |->
                    [ best_campaign   |-> campaign_data[1].key,
                      best_revenue    |-> campaign_data[1].Revenue,
                      best_percentage |-> pct_round1(campaign_data[1].Revenue, total_revenue),
                      campaigns       |-> Len(campaign_data),
                      total_revenue   |-> total_revenue,
                      breakdown       |->
                        [i \in 1..Len(campaign_data) |->
                            [ campaign |-> campaign_data[i].key,
                              revenue  |-> campaign_data[i].Revenue,
                              aov      |-> campaign_data[i].Avg_Order_Value ]] ] ],
              chart |->
                [ kind |-> "pie", x |-> "Campaign_Name", y |-> "Revenue",
                  data |-> campaign_data ],
              dataframe |-> campaign_data ])

analyze_campaign_performance(t) ==
    IF ~has_columns(t, {"Campaign_Name", "Revenue"})
    THEN Return([text |-> [words |-> CampaignRequires]])
    ELSE IF ~can_aggregate(t, "Campaign_Name")
    THEN Raise("KeyError")
    ELSE With(sort_by_revenue(with_order_value(agg_sums(t, "Campaign_Name"))),
              LAMBDA campaign_data :
                IF Len(campaign_data) = 0
                THEN Raise("IndexError")
                ELSE campaign_report(campaign_data))

\* the traffic-light tag of a regional score, given in hundredths
emoji(score) ==
    IF float_gt(score, Fin(400)) \/ score = Fin(400) THEN "green"
    ELSE IF float_gt(score, Fin(300)) \/ score = Fin(300) THEN "yellow"
    ELSE "red"

\* df['Customer_Satisfaction_Score'].value_counts().sort_index()
satisfaction_counts(t) ==
    With(sorted_ints(col_values(t, "Customer_Satisfaction_Score")),
         LAMBDA scores :
            [i \in 1..Len(scores) |->
                [ Score |-> scores[i],
                  Count |-> Cardinality(
                                group_rows(t, "Customer_Satisfaction_Score", scores[i])) ]])

\* df.groupby('Region')['Customer_Satisfaction_Score'].mean().round(2), sorted descending
region_satisfaction(t) ==
    With(group_keys(t, "Region"),
         LAMBDA regions :
            With([i \in 1..Len(regions) |->
                    [ key   |-> regions[i],
                      score |-> col_mean(t, "Customer_Satisfaction_Score",
                                         group_rows(t, "Region", regions[i])) ]],
                 LAMBDA means :
                    reorder(means,
                            order_desc([i \in 1..Len(means) |-> means[i].score], sort_gt))))

satisfaction_by_region(t, by_region) ==
    Return(
        [ text |->
            [ words  |-> SatisfactionHeading,
              values |->
                [ avg_satisfaction |->
                    col_mean(t, "Customer_Satisfaction_Score", row_ids(t)),
                  responses        |-> Len(t.rows),
                  by_region        |->
                    [i \in 1..Len(by_region) |->
                        [ region |-> by_region[i].key,
                          score  |-> by_region[i].score,
                          tag    |-> emoji(by_region[i].score) ]] ] ],
          chart |->
            [ kind |-> "bar", x |-> "Region", y |-> "Customer_Satisfaction_Score",
              data |-> by_region ],
          dataframe |-> by_region ])

satisfaction_by_score(t, counts) ==
    Return(
        [ text |->
            [ words  |-> SatisfactionHeading,
              values |->
                [ avg_satisfaction |->
                    col_mean(t, "Customer_Satisfaction_Score", row_ids(t)),
                  responses        |-> Len(t.rows),
                  distribution     |->
                    [i \in 1..Len(counts) |->
                        [ stars      |-> counts[i].Score,
                          count      |-> counts[i].Count,
                          percentage |-> pct_round1(counts[i].Count, Len(t.rows)) ]] ] ],
          chart |-> [kind |-> "bar", x |-> "Score", y |-> "Count", data |-> counts] ])

analyze_customer_satisfaction(t) ==
    IF ~has_columns(t, {"Customer_Satisfaction_Score"})
    THEN Return([text |-> [words |-> SatisfactionRequires]])
    ELSE IF "Region" \in t.columns
    THEN With(region_satisfaction(t), LAMBDA by_region : satisfaction_by_region(t, by_region))
    ELSE With(satisfaction_counts(t), LAMBDA counts : satisfaction_by_score(t, counts))

\* inventory_df = df[df['Inventory_Level'].notna()].copy(): a new table of the
\* rows that hold an inventory, the caller's table left as it was
has_inventory(row) == notna(row["Inventory_Level"])

\* df[df['Inventory_Level'].notna()].copy(): the caller's table and the copy
inventory_frames(t) ==
    [ df           |-> t,
      inventory_df |-> [columns |-> t.columns, rows |-> SelectSeq(t.rows, has_inventory)] ]

\* a list of integers in ascending order
sorted_values(xs) ==
    With(xs,
         LAMBDA v :
            LET before(i) ==
                    Cardinality({j \in 1..Len(v) : v[j] < v[i] \/ (v[j] = v[i] /\ j < i)})
            IN  [p \in 1..Len(v) |-> v[CHOOSE i \in 1..Len(v) : before(i) = p - 1]])

\* (as it would be with the lower of the two order statistics taken)
quantile25_lower_x4(xs) ==
    With(sorted_values(xs), LAMBDA s : 4 * s[((Len(s) - 1) \div 4) + 1])

\* four times Series.quantile(0.25) of a non-empty list: linear interpolation
\* between the two order statistics around position (n - 1) / 4
quantile25_x4(xs) ==
    With(sorted_values(xs),
         LAMBDA s :
            LET i == (Len(s) - 1) \div 4
                f == (Len(s) - 1) % 4
            IN  IF f = 0 THEN 4 * s[i + 1] ELSE 4 * s[i + 1] + f * (s[i + 2] - s[i + 1]))

\* inventory_df.groupby('Category_Department') with mean, sum and count of the
\* inventory, rounded to whole units and sorted by the sum, descending
inventory_by_category(inventory_df) ==
    With(group_keys(inventory_df, "Category_Department"),
         LAMBDA cats :
            With([i \in 1..Len(cats) |->
                    With(group_rows(inventory_df, "Category_Department", cats[i]),
                         LAMBDA S :
                            [ key             |-> cats[i],
                              Avg_Inventory   |->
                                round_div(col_sum(inventory_df, "Inventory_Level", S),
                                          Cardinality(S)),
                              Total_Inventory |-> col_sum(inventory_df, "Inventory_Level", S),
                              Product_Count   |-> Cardinality(S) ])],
                 LAMBDA stats :
                    reorder(stats,
                            order_desc([i \in 1..Len(stats) |-> stats[i].Total_Inventory],
                                       int_gt))))

inventory_report(levels, by_category) ==
    LET n == Len(levels)
        low_stock_threshold_x4 == quantile25_x4(levels)
    IN  Return(
            [ text |->
                [ words  |-> InventoryHeading,
                  values |->
                    [ products               |-> n,
                      avg_inventory          |-> round_div(SumOver(levels, 1..n), n),
                      low_stock_items_count  |->
                        Cardinality({i \in 1..n : 4 * levels[i] <= low_stock_threshold_x4}),
                      low_stock_threshold_x4 |-> low_stock_threshold_x4,
                      by_category            |-> by_category ] ],
              chart |->
                [ kind |-> "bar", x |-> "Category_Department", y |-> "Total_Inventory",
                  data |-> by_category ],
              dataframe |-> by_category ])

analyze_inventory(t) ==
    IF ~has_columns(t, {"Inventory_Level", "Category_Department"})
    THEN After(Return([text |-> [words |-> InventoryRequires]]), t)
    ELSE With(inventory_frames(t),
              LAMBDA frames :
                IF Len(frames.inventory_df.rows) = 0
                THEN After(Return([text |-> [words |-> NoInventoryData]]), frames.df)
                ELSE With(<< [i \in 1..Len(frames.inventory_df.rows) |->
                                frames.inventory_df.rows[i]["Inventory_Level"][1]],
                             inventory_by_category(frames.inventory_df) >>,
                          LAMBDA a : After(inventory_report(a[1], a[2]), frames.df)))

\* the aggregate with its Profit_Margin and Avg_Unit_Price columns
with_unit_price(rows) ==
    With(rows,
         LAMBDA agg :
            [i \in 1..Len(agg) |->
                [ key            |-> agg[i].key,
                  Revenue        |-> agg[i].Revenue,
                  Profit         |-> agg[i].Profit,
                  Units_Sold     |-> agg[i].Units_Sold,
                  Profit_Margin  |-> agg[i].Profit_Margin,
                  Avg_Unit_Price |-> ratio_fillna(agg[i].Revenue, agg[i].Units_Sold) ]])

category_report(category_data) ==
    LET n == Len(category_data)
        top_margin == argmax([i \in 1..n |-> category_data[i].Profit_Margin], float_gt)
    IN  Return(
            [ text |->
                [ words  |-> CategoryHeading,
                  values |->
                    [ top_revenue_category |-> category_data[1].key,
                      top_revenue          |-> category_data[1].Revenue,
                      top_margin_category  |-> category_data[top_margin].key,
                      top_margin           |-> category_data[top_margin].Profit_Margin,
                      categories           |-> n,
                      breakdown            |->
                        [i \in 1..n |->
                            [ category |-> category_data[i].key,
                              revenue  |-> category_data[i].Revenue,
                              margin   |-> category_data[i].Profit_Margin,
                              units    |-> category_data[i].Units_Sold ]] ] ],
              chart |->
                [ kind |-> "scatter", x |-> "Revenue", y |-> "Profit_Margin",
                  data |-> category_data ],
              dataframe |-> category_data ])

analyze_category_performance(t) ==
    IF ~has_columns(t, {"Category_Department", "Revenue", "Profit"})
    THEN Return([text |-> [words |-> CategoryRequires]])
    ELSE IF ~can_aggregate(t, "Category_Department")
    THEN Raise("KeyError")
    ELSE With(sort_by_revenue(
                with_unit_price(with_margin(agg_sums(t, "Category_Department")))),
              LAMBDA category_data :
                IF Len(category_data) = 0
                THEN Raise("IndexError")
                ELSE category_report(category_data))

\* df.groupby(key)['Revenue'].sum().idxmax(): <<>> when there is no group,
\* where pandas raises ValueError
top_by_revenue(t, key) ==
    With(group_keys(t, key),
         LAMBDA keys :
            IF Len(keys) = 0 THEN <<>>
            ELSE <<keys[argmax([i \in 1..Len(keys) |->
                                    col_sum(t, "Revenue", group_rows(t, key, keys[i]))],
                               int_gt)]>>)

\* (total_profit / total_revenue * 100) if total_revenue > 0 else 0, in tenths
overall_margin(total_profit, total_revenue) ==
    IF total_revenue > 0 THEN float_div(total_profit, total_revenue, 1000) ELSE Fin(0)

\* the rendering of min and max of the Date column fails on NaT
dates_render(t) == col_values(t, "Date") # {}

\* the total of a column, 0 when the table has no such column
total_or_zero(t, col) == IF col \in t.columns THEN col_sum(t, col, row_ids(t)) ELSE 0

summary_report(t, with_dates, top_region, top_category) ==
    Return(
        [ text |->
            [ words  |-> SummaryHeading,
              values |->
                [ total_revenue  |-> total_or_zero(t, "Revenue"),
                  total_profit   |-> total_or_zero(t, "Profit"),
                  overall_margin |->
                    overall_margin(total_or_zero(t, "Profit"), total_or_zero(t, "Revenue")),
                  total_units    |-> total_or_zero(t, "Units_Sold"),
                  records        |-> Len(t.rows),
                  date_range     |->
                    IF with_dates
                    THEN <<Min(col_values(t, "Date")), Max(col_values(t, "Date"))>>
                    ELSE <<>>,
                  top_region     |-> top_region,
                  top_category   |-> top_category ] ] ])

generate_summary(t) ==
    With([ with_dates   |-> "Date" \in t.columns /\ Len(t.rows) > 0,
           top_region   |->
             IF has_columns(t, {"Region", "Revenue"})
             THEN top_by_revenue(t, "Region") ELSE <<"N/A">>,
           top_category |->
             IF has_columns(t, {"Category_Department", "Revenue"})
             THEN top_by_revenue(t, "Category_Department") ELSE <<"N/A">> ],
         LAMBDA s :
            IF s.with_dates /\ ~dates_render(t)
            THEN Raise("ValueError")
            ELSE IF s.top_region = <<>> \/ s.top_category = <<>>
            THEN Raise("ValueError")
            ELSE summary_report(t, s.with_dates, s.top_region, s.top_category))

-----------------------------------------------------------------------------
(* analyze_question: the keyword dispatcher *)

\* (as it would be with the .lower() left out)
question_as_typed(q) == q

\* question_lower = question.lower()
question_lower(q) == lower(q)

\* what a call of analyze_question comes to: the routine it invoked ("none" when
\* it invoked none), what that returned or raised, and its table argument as the
\* caller holds it afterwards
Called(routine, out, after) == [routine |-> routine, out |-> out, df |-> after]

dispatch(ql, t) ==
    IF any_word_in(RegionalWords, ql)
    THEN Called("Regional", analyze_regional_performance(t), t)
    ELSE IF any_word_in(MonthlyWords, ql)
    THEN Called("Monthly", analyze_monthly_trends(t).out, analyze_monthly_trends(t).df)
    ELSE IF any_word_in(MarginWords, ql)
    THEN Called("Margin", analyze_profit_margins(t), t)
    ELSE IF any_word_in(CampaignWords, ql)
    THEN Called("Campaign", analyze_campaign_performance(t), t)
    ELSE IF any_word_in(SatisfactionWords, ql)
    THEN Called("Satisfaction", analyze_customer_satisfaction(t), t)
    ELSE IF any_word_in(InventoryWords, ql)
    THEN Called("Inventory", analyze_inventory(t).out, analyze_inventory(t).df)
    ELSE IF any_word_in(CategoryWords, ql)
    THEN Called("Category", analyze_category_performance(t), t)
    ELSE IF any_word_in(SummaryWords, ql)
    THEN Called("Summary", generate_summary(t), t)
    ELSE Called("none", Return([text |-> [words |-> HelpText]]), t)

analyze_question(q, t) == dispatch(question_lower(q), t)

-----------------------------------------------------------------------------
(* Tables and questions that the calls are given *)

AllColumns ==
    { "Date", "Region", "Product_Service_Name", "Category_Department",
      "Campaign_Name", "Revenue", "Profit", "Units_Sold",
      "Customer_Satisfaction_Score", "Inventory_Level" }

Row(date, region, product, category, campaign, revenue, profit, units, score, inventory) ==
    [ Date                        |-> date,
      Region                      |-> region,
      Product_Service_Name        |-> product,
      Category_Department         |-> category,
      Campaign_Name               |-> campaign,
      Revenue                     |-> revenue,
      Profit                      |-> profit,
      Units_Sold                  |-> units,
      Customer_Satisfaction_Score |-> score,
      Inventory_Level             |-> inventory ]

\* rows as the upload's type coercion leaves them; the third has no date, score
\* or inventory, and a profit on zero revenue and zero units
SampleRows ==
    { Row(<<20240115>>, <<"North">>, <<"Deluxe Widget">>, <<"Electronics">>,
          <<"Holiday Sale">>, <<100>>, <<25>>, <<10>>, <<4>>, <<100>>),
      Row(<<20240220>>, <<"South">>, <<"T-Shirt">>, <<"Apparel">>,
          <<"Summer Sale">>, <<100>>, <<50>>, <<5>>, <<3>>, <<200>>),
      Row(NULL, <<"North">>, <<"Cloud Subscription">>, <<"Software">>,
          <<"Holiday Sale">>, <<0>>, <<5>>, <<0>>, NULL, NULL) }

ColumnSets ==
    {AllColumns}
        \cup {AllColumns \ {c} : c \in AllColumns}
        \cup {AllColumns \ {"Product_Service_Name", "Category_Department"}}
        \cup {{"Region", "Revenue"}}

\* the table of the given rows with only the given columns
Table(cols, rows) ==
    [ columns |-> cols,
      rows    |-> [i \in 1..Len(rows) |-> [c \in cols |-> rows[i][c]]] ]

RowLists == UNION {[1..n -> SampleRows] : n \in 0..MaxRows}

\* a row of which only the category and the inventory level matter
InventoryRow(category, inventory) ==
    Row(<<20240115>>, <<"North">>, <<"Deluxe Widget">>, <<category>>, <<"Holiday Sale">>,
        <<100>>, <<25>>, <<10>>, <<4>>, inventory)

\* inventory levels 100, 200, 300 and 400, out of order, and a row without one
InventoryExample ==
    Table({"Category_Department", "Inventory_Level"},
          << InventoryRow("Electronics", <<300>>), InventoryRow("Apparel", <<100>>),
             InventoryRow("Software", NULL), InventoryRow("Apparel", <<400>>),
             InventoryRow("Electronics", <<200>>) >>)

\* a row of which only the product, the revenue and the profit matter
ProductRow(product, revenue, profit) ==
    Row(<<20240115>>, <<"North">>, <<product>>, <<"Electronics">>, <<"Holiday Sale">>,
        <<revenue>>, <<profit>>, <<1>>, <<4>>, <<100>>)

\* one category with revenue 1000 and profit 250
MarginExample ==
    Table({"Category_Department", "Revenue", "Profit", "Units_Sold"},
          << ProductRow("Deluxe Widget", 1000, 250) >>)

\* six products, one of them on two rows; the product with the largest revenue
\* has the smallest margin
SixProducts ==
    Table({"Product_Service_Name", "Category_Department", "Revenue", "Profit", "Units_Sold"},
          << ProductRow("Polo Shirt", 400, 20), ProductRow("E-Reader", 50, 25),
             ProductRow("Deluxe Widget", 100, 10), ProductRow("Jacket", 100, 40),
             ProductRow("Cloud Subscription", 200, 60), ProductRow("Hoodie", 100, 20),
             ProductRow("E-Reader", 50, 5) >>)

\* a row of which only the date and the revenue matter
DatedRow(date, revenue) ==
    Row(date, <<"North">>, <<"Deluxe Widget">>, <<"Electronics">>, <<"Holiday Sale">>,
        <<revenue>>, <<25>>, <<1>>, <<4>>, <<100>>)

\* three months out of order, January on two dates, and a row without a date:
\* January has the largest revenue and March is the latest month
ThreeMonths ==
    Table({"Date", "Revenue", "Profit", "Units_Sold"},
          << DatedRow(<<20240220>>, 100), DatedRow(<<20240105>>, 50),
             DatedRow(<<20240310>>, 150), DatedRow(NULL, 900),
             DatedRow(<<20240125>>, 150) >>)

ExampleTables == {InventoryExample, MarginExample, SixProducts, ThreeMonths}

Tables == {Table(cols, rows) : cols \in ColumnSets, rows \in RowLists} \cup ExampleTables

ButtonQuestions == <<Button0, Button1, Button2, Button3, Button4, Button5>>

TypedQuestions ==
    {QRegionalProfit, QUpperRegion, QCostume, QProduct, QSummary, QHello}

Questions == Range(ButtonQuestions) \cup TypedQuestions

-----------------------------------------------------------------------------
(* A direct call of analyze_question on any question and table *)

NoResponse == [routine |-> "pending"]

SessionIdle ==
    /\ uploaded_file = <<>>
    /\ data = <<>>
    /\ messages = <<>>
    /\ cache = {}
    /\ load_error = FALSE
    /\ run_raised = ""

InitAnalysis ==
    /\ SessionIdle
    /\ records = <<>>
    /\ iteration = <<>>
    /\ pc = "call"
    /\ question \in Questions
    /\ df \in Tables
    /\ response = NoResponse

CallAnalyzeQuestion ==
    /\ pc = "call"
    /\ LET r == analyze_question(question, df)
       IN  /\ response' = r
           /\ df' = r.df
    /\ pc' = "done"
    /\ UNCHANGED <<uploaded_file, data, messages, cache, load_error, run_raised,
                   question, records, iteration>>

NextAnalysis == CallAnalyzeQuestion

SpecAnalysis == InitAnalysis /\ [][NextAnalysis]_vars

-----------------------------------------------------------------------------
(* The upload handler: read_csv, type coercion, the overview *)

\* the text of the dates that pd.to_datetime parses
DateText == ("2024-01-15" :> 20240115) @@ ("2024-02-20" :> 20240220)

\* the text of the numbers that pd.to_numeric parses
NumberText ==
    ("0" :> 0) @@ ("3" :> 3) @@ ("4" :> 4) @@ ("5" :> 5) @@ ("10" :> 10)
        @@ ("25" :> 25) @@ ("50" :> 50) @@ ("100" :> 100) @@ ("200" :> 200)

\* pd.to_datetime(., errors='coerce') on one field
to_datetime(s) == IF s \in DOMAIN DateText THEN <<DateText[s]>> ELSE NULL

\* pd.to_numeric(., errors='coerce') on one field
to_numeric(s) == IF s \in DOMAIN NumberText THEN <<NumberText[s]>> ELSE NULL

numeric_columns ==
    { "Revenue", "Cost", "Profit", "Units_Sold",
      "Customer_Satisfaction_Score", "Inventory_Level" }

\* a field of the file as the session table holds it: an empty field is null
coerce_field(col, s) ==
    IF col = "Date" THEN to_datetime(s)
    ELSE IF col \in numeric_columns THEN to_numeric(s)
    ELSE IF s = "" THEN NULL ELSE <<s>>

\* df = pd.read_csv(uploaded_file) followed by the coercion of its columns
read_and_coerce(f) ==
    [ columns |-> f.columns,
      rows    |->
        [i \in 1..Len(f.rows) |-> [c \in f.columns |-> coerce_field(c, f.rows[i][c])]] ]

\* the overview raises where it renders the date range of a column of NaT only,
\* or takes idxmax over no group
overview_raises(t) ==
    \/ "Date" \in t.columns /\ Len(t.rows) > 0 /\ ~dates_render(t)
    \/ has_columns(t, {"Revenue", "Region"}) /\ top_by_revenue(t, "Region") = <<>>
    \/ /\ has_columns(t, {"Revenue", "Category_Department"})
       /\ top_by_revenue(t, "Category_Department") = <<>>

\* the sidebar block: the session table and whether st.error was called
upload_handler(uf, before) ==
    IF uf = <<>>
    THEN [data |-> before, load_error |-> FALSE]
    ELSE IF ~uf[1].parses
    THEN [data |-> before, load_error |-> TRUE]
    ELSE With(read_and_coerce(uf[1]),
              LAMBDA t :
                \* st.session_state.data = df comes before the overview
                [data |-> <<t>>, load_error |-> overview_raises(t)])

-----------------------------------------------------------------------------
(* st.cache_data: entries keyed by the function and the value of its arguments *)

\* the number of rows from which the hash of a DataFrame argument is taken over a
\* fixed sample of its rows (100,000 rows in Streamlit, a sample of 10,000),
\* scaled to the files followed here
PandasRowsLarge == 3

\* obj.sample(n, random_state=0): the same positions for every frame of one
\* length; the first row stands for them
sampled_rows(rows) == SubSeq(rows, 1, 1)

\* what the cache key holds of a table argument: its shape, its columns and its
\* rows, or the sampled rows of a large table
table_fingerprint(t) ==
    [ shape   |-> <<Len(t.rows), Cardinality(t.columns)>>,
      columns |-> t.columns,
      rows    |-> IF Len(t.rows) >= PandasRowsLarge THEN sampled_rows(t.rows) ELSE t.rows ]

cache_key(fn, q, t) == [fn |-> fn, question |-> q, table |-> table_fingerprint(t)]

cache_hit(c, key) == \E e \in c : e.key = key

cache_value(c, key) == (CHOOSE e \in c : e.key = key).value

cache_put(c, key, value) == c \cup {[key |-> key, value |-> value]}

\* analyze_question(question, df) through its cache and the caches of the routines:
\* a hit returns the stored dict and runs nothing, a miss runs the body, whose
\* routine call is looked up in turn; a dict that is returned is stored, an
\* exception is not
cached_analyze_question(q, t, c) ==
    LET qkey == cache_key("analyze_question", q, t)
    IN  IF cache_hit(c, qkey)
        THEN [out |-> Return(cache_value(c, qkey)), cache |-> c]
        ELSE
        With(analyze_question(q, t),
             LAMBDA r :
                LET rkey == cache_key(r.routine, <<>>, t)
                    inner ==
                        IF r.routine # "none" /\ cache_hit(c, rkey)
                        THEN Return(cache_value(c, rkey))
                        ELSE r.out
                    c1 == IF r.routine # "none" /\ inner.raised = ""
                          THEN cache_put(c, rkey, inner.value) ELSE c
                IN  IF inner.raised = ""
                    THEN [out |-> inner, cache |-> cache_put(c1, qkey, inner.value)]
                    ELSE [out |-> inner, cache |-> c1])

-----------------------------------------------------------------------------
(* The transcript *)

WelcomeText ==
    << "Great!", "I've", "loaded", "your", "data", "with", "records.", "What",
       "would", "you", "like", "to", "analyze?" >>

user_message(q) == [role |-> "user", content |-> q]

\* response.get(key): <<>> for None
get(d, key) == IF key \in DOMAIN d THEN <<d[key]>> ELSE <<>>

assistant_message(res) ==
    [ role      |-> "assistant",
      content   |-> res["text"],
      chart     |-> get(res, "chart"),
      dataframe |-> get(res, "dataframe") ]

\* if key in message: del message[key], for "chart" and "dataframe"
del_payload(m) == [k \in DOMAIN m \ {"chart", "dataframe"} |-> m[k]]

\* the position, counted from the end, of the message whose payload is deleted
\* after the append: st.session_state.messages[-2]
payload_drop_offset == 2

drop_payload(msgs) ==
    LET i == Len(msgs) + 1 - payload_drop_offset
    IN  [msgs EXCEPT ![i] = del_payload(@)]

\* the rendering loop draws the chart or table of a message that still has one
live_payload(m) ==
    /\ m.role = "assistant"
    /\ \/ "chart" \in DOMAIN m /\ m.chart # <<>>
       \/ "dataframe" \in DOMAIN m /\ m.dataframe # <<>>

\* the columns a quick-question button is shown for, by button
ButtonColumns ==
    << {"Region", "Revenue"}, {"Date", "Revenue"}, {"Profit", "Revenue"},
       {"Campaign_Name", "Revenue"}, {"Customer_Satisfaction_Score"},
       {"Inventory_Level", "Category_Department"} >>

button_shown(i, d) == d # <<>> /\ has_columns(d[1], ButtonColumns[i])

\* lines 598-646: a pressed button that is shown, then a submitted chat input,
\* each append the user's question
asked_messages(msgs, d, press, typed) ==
    LET m1 == IF press # 0 /\ button_shown(press, d)
              THEN Append(msgs, user_message(ButtonQuestions[press]))
              ELSE msgs
    IN  IF d # <<>> /\ typed # <<>> THEN Append(m1, user_message(typed[1])) ELSE m1

\* lines 648-661: answer the question the transcript ends with
answer_block(msgs, d, c) ==
    IF msgs = <<>> \/ msgs[Len(msgs)].role # "user"
    THEN [messages |-> msgs, cache |-> c, raised |-> ""]
    ELSE IF d = <<>>
    THEN [messages |-> msgs, cache |-> c, raised |-> "AttributeError"]
    ELSE With(cached_analyze_question(msgs[Len(msgs)].content, d[1], c),
              LAMBDA call :
                IF call.out.raised # ""
                THEN [messages |-> msgs, cache |-> call.cache, raised |-> call.out.raised]
                ELSE [ messages |->
                         drop_payload(Append(msgs, assistant_message(call.out.value))),
                       cache    |-> call.cache,
                       raised   |-> "" ])

\* lines 679-686: the welcome message, once a table is loaded and the transcript
\* holds no message that is not a user's
welcome_block(msgs, d) ==
    IF d # <<>> /\ \A i \in 1..Len(msgs) : msgs[i].role = "user"
    THEN Append(msgs,
                [ role    |-> "assistant",
                  content |-> [words |-> WelcomeText, values |-> [records |-> Len(d[1].rows)]] ])
    ELSE msgs

-----------------------------------------------------------------------------
(* The files a user uploads *)

RawRow(date, region, product, category, campaign, revenue, profit, units, score, inventory) ==
    Row(date, region, product, category, campaign, revenue, profit, units, score, inventory)

RawNorth ==
    RawRow("2024-01-15", "North", "Deluxe Widget", "Electronics", "Holiday Sale",
           "100", "25", "10", "4", "100")

RawSouth ==
    RawRow("2024-02-20", "South", "T-Shirt", "Apparel", "Summer Sale",
           "100", "50", "5", "3", "200")

RawUndated ==
    RawRow("n/a", "North", "Cloud Subscription", "Software", "Holiday Sale",
           "0", "5", "0", "", "")

File(parses, cols, rows) ==
    [ parses  |-> parses,
      columns |-> cols,
      rows    |-> [i \in 1..Len(rows) |-> [c \in cols |-> rows[i][c]]] ]

Files ==
    { File(TRUE, AllColumns, <<RawNorth, RawSouth>>),
      File(TRUE, AllColumns, <<RawSouth, RawSouth>>),
      File(TRUE, AllColumns, <<RawNorth, RawSouth, RawSouth>>),
      File(TRUE, AllColumns, <<RawNorth, RawSouth, RawNorth>>),
      File(TRUE, AllColumns, <<RawUndated>>),
      File(TRUE, {"Region", "Revenue"}, <<RawNorth>>),
      File(FALSE, {}, <<>>) }

SessionTyped == {QRegionalProfit, QHello}

-----------------------------------------------------------------------------
(* One run of the script, from the widget event that starts it *)

AnalysisIdle ==
    /\ pc = "idle"
    /\ question = <<>>
    /\ df = [columns |-> {}, rows |-> <<>>]
    /\ response = NoResponse

Init ==
    /\ SessionIdle
    /\ AnalysisIdle
    /\ records = <<>>
    /\ iteration = <<>>

\* the script from top to bottom: uf is the uploader's value, press the button
\* pressed (0 for none), typed the chat input (<<>> for none)
ScriptRun(uf, press, typed) ==
    \E side \in {upload_handler(uf, data)} :
    \E asked \in {asked_messages(messages, side.data, press, typed)} :
    \E ans \in {answer_block(asked, side.data, cache)} :
        /\ uploaded_file' = uf
        /\ data' = side.data
        /\ load_error' = side.load_error
        /\ cache' = ans.cache
        /\ run_raised' = ans.raised
        /\ messages' = IF ans.raised # "" THEN ans.messages
                       ELSE welcome_block(ans.messages, side.data)
        /\ UNCHANGED <<pc, question, df, response, records, iteration>>

RoomFor(n) == Len(messages) + n <= MaxMessages

\* the user chooses a file
Upload ==
    \E f \in Files :
        /\ uploaded_file # <<f>>
        /\ RoomFor(1)
        /\ ScriptRun(<<f>>, 0, <<>>)

\* the user removes the file from the uploader
RemoveFile ==
    /\ uploaded_file # <<>>
    /\ ScriptRun(<<>>, 0, <<>>)

\* the user presses a quick-question button that the last run showed
PressButton ==
    \E i \in 1..Len(ButtonQuestions) :
        /\ button_shown(i, data)
        /\ RoomFor(2)
        /\ ScriptRun(uploaded_file, i, <<>>)

\* the user submits a question in the chat input that the last run showed
TypeQuestion ==
    \E q \in SessionTyped :
        /\ data # <<>>
        /\ RoomFor(2)
        /\ ScriptRun(uploaded_file, 0, <<q>>)

Next == Upload \/ RemoveFile \/ PressButton \/ TypeQuestion

Spec == Init /\ [][Next]_vars

-----------------------------------------------------------------------------
(* generate_business_data: the construction of one record per iteration.    *)
(* Amounts are in cents, rates in thousandths, margins in hundredths of a   *)
(* percent.  The fields drawn independently of all others (date, product    *)
(* name, ids, segment, conversion, satisfaction) are left out.              *)

REGIONS == {"North", "South", "East", "West"}

PRODUCT_CATEGORIES == {"Electronics", "Services", "Software", "Apparel"}

CAMPAIGN_NAMES ==
    {"Spring Promo", "Summer Sale", "Holiday Sale", "Back-to-School", "Q1 Launch"}

\* the draws of np.random.choice(REGIONS) that are followed: no statement tells
\* West from East
region_draws == REGIONS \ {"West"}

\* the draws of np.random.choice(CAMPAIGN_NAMES) that are followed: no statement
\* tells Back-to-School or Q1 Launch from Spring Promo
campaign_draws == CAMPAIGN_NAMES \ {"Back-to-School", "Q1 Launch"}

\* (as it would be with the campaign name compared to the word)
CampaignIs(word, campaign_name) == campaign_name = word

\* 'Holiday' in campaign_name, 'Summer' in campaign_name
CampaignHas(word, campaign_name) ==
    \/ word = "Holiday" /\ campaign_name = "Holiday Sale"
    \/ word = "Summer" /\ campaign_name = "Summer Sale"

\* the draws of np.random.randint(lo, hi) that are followed: the ends of [lo, hi)
randint_ends(lo, hi) == {lo, hi - 1}

\* the draws of np.random.uniform(lo, hi) that are followed: its two ends
uniform_ends(lo, hi) == {lo, hi}

\* the base price range of a category, in whole units
base_prices(category) ==
    IF category = "Electronics" THEN uniform_ends(150, 800)
    ELSE IF category = "Software" THEN uniform_ends(500, 2500)
    ELSE IF category = "Services" THEN uniform_ends(100, 600)
    ELSE uniform_ends(20, 150)

\* revenue *= f, for a factor f given in twentieths, on an amount in 1/1600
apply_bias(amount, applies, twentieths) ==
    IF applies THEN (amount \div 20) * twentieths ELSE amount

\* revenue = units_sold * base_price with the four biases applied, in 1/1600;
\* the arithmetic is exact where the code's is in binary floating point
biased_revenue(region, category, campaign_name, units_sold, base_price) ==
    With(apply_bias(units_sold * base_price * 1600,
                    region = "North" /\ category = "Electronics", 23),
      LAMBDA north :
    With(apply_bias(north, region = "South" /\ category = "Apparel", 24),
      LAMBDA south :
    With(apply_bias(south, CampaignHas("Holiday", campaign_name), 25),
      LAMBDA holiday :
        apply_bias(holiday, CampaignHas("Summer", campaign_name), 22))))

\* round(amount / divisor, 2) in cents, for an amount in 1/1600
round_cents(amount, divisor) ==
    (amount \div (1600 * divisor)) * 100
        + round_div((amount % (1600 * divisor)) * 100, 1600 * divisor)

RECURSIVE gcd(_, _)
gcd(a, b) == IF b = 0 THEN a ELSE gcd(b, a % b)

\* round((profit / revenue) * 100, 2) in hundredths of a percent
margin_pct(profit, revenue) ==
    round_div((profit \div gcd(profit, revenue)) * 10000, revenue \div gcd(profit, revenue))

\* (as it would be with Apparel left out of the physical goods)
is_electronics(category) == category = "Electronics"

\* category in ['Electronics', 'Apparel']
is_physical(category) == category \in {"Electronics", "Apparel"}

\* the inventory draws of a category: np.random.randint(100, 5000) or NaN
inventory_draws(category) ==
    IF is_physical(category) THEN {<<n>> : n \in randint_ends(100, 5000)} ELSE {NULL}

\* the return rate draws of a category, in thousandths: uniform(0.01, 0.1) or 0.0
return_rate_draws(category) ==
    IF is_physical(category) THEN uniform_ends(10, 100) ELSE {0}

\* (as it would be with the drawn fraction taken as the margin kept)
cost_of_remainder(revenue, cost_quarters) == (revenue \div 4) * (4 - cost_quarters)

\* cost = revenue * np.random.uniform(0.5, 0.75), the draw given in quarters
cost_of(revenue, cost_quarters) == (revenue \div 4) * cost_quarters

\* the locals of one iteration that the derived fields are computed from;
\* revenue and cost are in 1/1600
locals_of(region, category, campaign_name, units_sold, base_price, cost_quarters) ==
    With(biased_revenue(region, category, campaign_name, units_sold, base_price),
      LAMBDA revenue :
        [ units_sold |-> units_sold,
          base_price |-> base_price,
          revenue    |-> revenue,
          cost       |-> cost_of(revenue, cost_quarters) ])

\* the record of one iteration, from its draws and locals
record_of(region, category, campaign_name, loc, inventory_level, return_rate) ==
    [ Region              |-> region,
      Category_Department |-> category,
      Campaign_Name       |-> campaign_name,
      Revenue             |-> round_cents(loc.revenue, 1),
      Cost                |-> round_cents(loc.cost, 1),
      Profit              |-> round_cents(loc.revenue - loc.cost, 1),
      Profit_Margin_pct   |-> margin_pct(loc.revenue - loc.cost, loc.revenue),
      Units_Sold          |-> loc.units_sold,
      Inventory_Level     |-> inventory_level,
      Return_Rate_pct     |-> return_rate,
      Average_Order_Value |-> round_cents(loc.revenue, loc.units_sold) ]

InitGen ==
    /\ SessionIdle
    /\ AnalysisIdle
    /\ records = <<>>
    /\ iteration = <<>>

\* one iteration of the loop: the draws, then records.append(record)
GenerateRecord ==
    /\ Len(records) < MaxRecords
    /\ \E region \in region_draws, category \in PRODUCT_CATEGORIES,
          campaign_name \in campaign_draws :
       \E units_sold \in randint_ends(10, 300), base_price \in base_prices(category),
          cost_quarters \in uniform_ends(2, 3) :
       \E inventory_level \in inventory_draws(category),
          return_rate \in return_rate_draws(category) :
       \E loc \in {locals_of(region, category, campaign_name, units_sold, base_price,
                             cost_quarters)} :
            /\ iteration' = <<loc>>
            /\ records' = Append(records,
                                 record_of(region, category, campaign_name, loc,
                                           inventory_level, return_rate))
    /\ UNCHANGED <<uploaded_file, data, messages, cache, load_error, run_raised,
                   pc, question, df, response>>

NextGen == GenerateRecord

SpecGen == InitGen /\ [][NextGen]_vars

-----------------------------------------------------------------------------
(* Properties of analyze_question and the routines, under SpecAnalysis *)

Returned(r) == r.out.raised = ""

\* C2: for every question and every table, analyze_question returns a result
\* that carries a text, and no exception reaches the caller.
C2_AlwaysReturnsText ==
    pc = "done" => Returned(response) /\ "text" \in DOMAIN response.out.value

C3_IntentOrder ==
    << "Regional", "Monthly", "Margin", "Campaign",
       "Satisfaction", "Inventory", "Category", "Summary" >>

C3_KeywordSets ==
    << RegionalWords, MonthlyWords, MarginWords, CampaignWords,
       SatisfactionWords, InventoryWords, CategoryWords, SummaryWords >>

C3_Matching(q) ==
    {i \in 1..Len(C3_KeywordSets) : any_word_in(C3_KeywordSets[i], lower(q))}

\* the intent the first matching keyword set names, "none" when none matches
C3_Expected ==
    [q \in Questions |->
        IF C3_Matching(q) = {} THEN "none" ELSE C3_IntentOrder[Min(C3_Matching(q))]]

\* C3: the call goes to the first intent, in the order Regional, Monthly, Margin,
\* Campaign, Satisfaction, Inventory, Category, Summary, one of whose keywords
\* occurs in the lower-cased question; when none occurs it invokes no routine and
\* returns the help message with no chart and no table.
C3_FirstMatchingIntentWins ==
    pc = "done" =>
        /\ response.routine = C3_Expected[question]
        /\ C3_Expected[question] = "none"
              => response.out = Return([text |-> [words |-> HelpText]])

\* a question with a region keyword and a profit keyword went to Regional
C3_Witness ==
    /\ pc = "done"
    /\ question = QRegionalProfit
    /\ any_word_in(RegionalWords, question) /\ any_word_in(MarginWords, question)
    /\ response.routine = "Regional"

C4_Required ==
    [ Regional     |-> {"Region", "Revenue"},
      Monthly      |-> {"Date", "Revenue"},
      Margin       |-> {"Profit", "Revenue"},
      Campaign     |-> {"Campaign_Name", "Revenue"},
      Satisfaction |-> {"Customer_Satisfaction_Score"},
      Inventory    |-> {"Inventory_Level", "Category_Department"},
      Category     |-> {"Category_Department", "Revenue", "Profit"} ]

C4_ColumnMissing(routine, t) ==
    \/ ~(C4_Required[routine] \subseteq t.columns)
    \/ /\ routine = "Margin"
       /\ {"Product_Service_Name", "Category_Department"} \cap t.columns = {}

\* C4: a routine called on a table that lacks a column it declares as required
\* returns a result whose text contains "requires" and that has no chart and no
\* table, and does not raise.
C4_MissingColumnSoftFails ==
    (/\ pc = "done"
     /\ response.routine \in DOMAIN C4_Required
     /\ C4_ColumnMissing(response.routine, df))
        => /\ Returned(response)
           /\ DOMAIN response.out.value = {"text"}
           /\ "requires" \in Range(response.out.value.text.words)

\* the Regional routine ran on a table that has 'Region' and lacks 'Revenue'
C4_Witness ==
    /\ pc = "done"
    /\ response.routine = "Regional"
    /\ "Region" \in df.columns /\ "Revenue" \notin df.columns
    /\ response.out = Return([text |-> [words |-> RegionalRequires]])

\* C7: in the tables of the Regional, Margin and Category routines a group whose
\* summed revenue is zero has margin 0, and in the Category routine a group whose
\* summed units are zero has average unit price 0, whatever the numerator.
C7_ZeroDenominatorGivesZero ==
    (/\ pc = "done"
     /\ response.routine \in {"Regional", "Margin", "Category"}
     /\ Returned(response)
     /\ "dataframe" \in DOMAIN response.out.value)
        => \A i \in 1..Len(response.out.value.dataframe) :
              LET row == response.out.value.dataframe[i]
              IN  /\ row.Revenue = 0 => row.Profit_Margin = Fin(0)
                  /\ (response.routine = "Category" /\ row.Units_Sold = 0)
                        => row.Avg_Unit_Price = Fin(0)

\* C9: a call of analyze_question leaves its table as it was: the same columns,
\* the same rows, the same cells.
C9_TableUnchanged == [][df' = df]_vars

\* the Monthly routine derived its Month column and reported; the Inventory
\* routine filtered rows out and reported
C9_Witness ==
    /\ pc = "done"
    /\ Returned(response)
    /\ "dataframe" \in DOMAIN response.out.value
    /\ \/ /\ response.routine = "Monthly"
          /\ "Month" \notin df.columns
       \/ /\ response.routine = "Inventory"
          /\ Len(response.out.value.dataframe) > 0
          /\ \E i \in row_ids(df) : ~has_inventory(df.rows[i])

\* the rows of the table given to the call that have an inventory level
C12_Stocked == {i \in row_ids(df) : df.rows[i]["Inventory_Level"] # NULL}

\* the k-th smallest inventory level of those rows
C12_Smallest(k) ==
    LET level(i) == df.rows[i]["Inventory_Level"][1]
    IN  level(CHOOSE i \in C12_Stocked :
                /\ Cardinality({j \in C12_Stocked : level(j) < level(i)}) < k
                /\ k <= Cardinality({j \in C12_Stocked : level(j) <= level(i)}))

\* four times the 25th percentile of those levels, interpolated linearly between
\* the order statistics around position (n - 1) / 4
C12_Percentile_x4 ==
    LET n == Cardinality(C12_Stocked)
        whole == (n - 1) \div 4
        part == (n - 1) % 4
    IN  IF part = 0 THEN 4 * C12_Smallest(whole + 1)
        ELSE (4 - part) * C12_Smallest(whole + 1) + part * C12_Smallest(whole + 2)

\* C12: the Inventory routine reports the number of rows with a non-null
\* inventory, the 25th percentile of their levels by linear interpolation as the
\* threshold, and the number of those rows at or below it as the low-stock count;
\* levels 100, 200, 300, 400 give threshold 175 and count 1.
C12_LowStockByQuartile ==
    (/\ pc = "done"
     /\ response.routine = "Inventory"
     /\ Returned(response)
     /\ "dataframe" \in DOMAIN response.out.value)
        => LET v == response.out.value.text.values
           IN  /\ v.products = Cardinality(C12_Stocked)
               /\ v.low_stock_threshold_x4 = C12_Percentile_x4
               /\ v.low_stock_items_count =
                     Cardinality({i \in C12_Stocked :
                                    4 * df.rows[i]["Inventory_Level"][1] <= C12_Percentile_x4})
               /\ df = InventoryExample
                     => v.low_stock_threshold_x4 = 4 * 175 /\ v.low_stock_items_count = 1

\* the routine reported on the levels 100, 200, 300, 400 and a row without one
C12_Witness ==
    /\ pc = "done"
    /\ response.routine = "Inventory"
    /\ df = InventoryExample
    /\ Returned(response)
    /\ response.out.value.text.values.products = 4
    /\ response.out.value.text.values.low_stock_items_count = 1

\* C14: on a table that has the Inventory_Level and Category_Department columns
\* and no row with an inventory level, the Inventory routine returns the text
\* "No inventory data available ..." alone, with no chart, no table and no
\* statistics.
C14_NoInventorySoftFails ==
    (/\ pc = "done"
     /\ response.routine = "Inventory"
     /\ {"Inventory_Level", "Category_Department"} \subseteq df.columns
     /\ C12_Stocked = {})
        => /\ Returned(response)
           /\ DOMAIN response.out.value = {"text"}
           /\ DOMAIN response.out.value.text = {"words"}
           /\ SubSeq(response.out.value.text.words, 1, 4)
                 = <<"No", "inventory", "data", "available">>

\* the routine ran on a table whose rows all lack an inventory level
C14_Witness ==
    /\ pc = "done"
    /\ response.routine = "Inventory"
    /\ {"Inventory_Level", "Category_Department"} \subseteq df.columns
    /\ Len(df.rows) = 2
    /\ C12_Stocked = {}
    /\ Returned(response)

\* the column the Margin routine is to group by
C13_GroupColumn ==
    IF "Product_Service_Name" \in df.columns
    THEN "Product_Service_Name" ELSE "Category_Department"

\* the rows of a group that hold a value in a column
C13_Rows(g, col) ==
    {i \in row_ids(df) : df.rows[i][C13_GroupColumn] = <<g>> /\ df.rows[i][col] # NULL}

C13_Groups ==
    {df.rows[i][C13_GroupColumn][1] :
        i \in {j \in row_ids(df) : df.rows[j][C13_GroupColumn] # NULL}}

C13_Sum(g, col) == SumOver([i \in C13_Rows(g, col) |-> df.rows[i][col][1]], C13_Rows(g, col))

\* 100 * profit / revenue of a group of non-zero revenue, in hundredths of a percent
C13_Margin(g) == Fin(round_div(C13_Sum(g, "Profit") * 10000, C13_Sum(g, "Revenue")))

\* C13: the Margin routine groups by product name when the table has that column
\* and by category otherwise; each listed group carries 100 times its summed profit
\* over its summed revenue; the list holds the first min(5, number of groups)
\* groups in non-increasing margin order; the item reported as highest is the head
\* of the list and no group has a larger margin; one group of revenue 1000 and
\* profit 250 is reported at 25.0% as top and only item.
C13_RankedByMargin ==
    (/\ pc = "done"
     /\ response.routine = "Margin"
     /\ Returned(response)
     /\ "dataframe" \in DOMAIN response.out.value)
        => LET v == response.out.value.text.values
               n == Len(v.performers)
           IN  /\ n = Min({5, Cardinality(C13_Groups)})
               /\ \A i \in 1..n :
                     /\ v.performers[i].item \in C13_Groups
                     /\ v.performers[i].revenue = C13_Sum(v.performers[i].item, "Revenue")
                     /\ v.performers[i].revenue # 0
                           => v.performers[i].margin = C13_Margin(v.performers[i].item)
               /\ \A i, j \in 1..n : i # j => v.performers[i].item # v.performers[j].item
               /\ \A i \in 1..(n - 1) :
                     ~float_gt(v.performers[i + 1].margin, v.performers[i].margin)
               /\ v.top_item = v.performers[1].item
               /\ v.top_margin = v.performers[1].margin
               /\ \A g \in C13_Groups :
                     C13_Sum(g, "Revenue") # 0 => ~float_gt(C13_Margin(g), v.top_margin)
               /\ df = MarginExample
                     => /\ n = 1
                        /\ v.top_item = "Electronics"
                        /\ v.top_margin = Fin(2500)

\* the routine ranked six products: the five listed leave out the product with
\* the largest revenue, and the top one is not the product with the largest revenue
C13_Witness ==
    /\ pc = "done"
    /\ response.routine = "Margin"
    /\ df = SixProducts
    /\ Returned(response)
    /\ Len(response.out.value.text.values.performers) = 5
    /\ response.out.value.text.values.top_item = "Jacket"
    /\ \A i \in 1..5 : response.out.value.text.values.performers[i].item # "Polo Shirt"

\* the calendar months, as yyyymm, of the dated rows of the table given to the call
C16_Months ==
    {df.rows[i]["Date"][1] \div 100 : i \in {j \in row_ids(df) : df.rows[j]["Date"] # NULL}}

\* the rows of a month that hold a revenue
C16_Rows(m) ==
    {i \in row_ids(df) :
        /\ df.rows[i]["Date"] # NULL
        /\ df.rows[i]["Date"][1] \div 100 = m
        /\ df.rows[i]["Revenue"] # NULL}

C16_Revenue(m) == SumOver([i \in C16_Rows(m) |-> df.rows[i]["Revenue"][1]], C16_Rows(m))

\* C16: the Monthly routine's table has one row per calendar month of the dated
\* rows, in chronological order, with the month's summed revenue; from the second
\* row on the growth is the percent change from the row before; the latest month
\* reported is the last one, with its revenue and growth; the best month reported
\* is one of largest summed revenue.
C16_MonthlyGrowth ==
    (/\ pc = "done"
     /\ response.routine = "Monthly"
     /\ Returned(response)
     /\ "dataframe" \in DOMAIN response.out.value)
        => LET v == response.out.value.text.values
               rows == response.out.value.dataframe
               n == Len(rows)
           IN  /\ n = Cardinality(C16_Months)
               /\ \A i \in 1..n :
                     /\ rows[i].Month \in C16_Months
                     /\ rows[i].Revenue = C16_Revenue(rows[i].Month)
               /\ \A i \in 1..(n - 1) : rows[i].Month < rows[i + 1].Month
               /\ \A i \in 2..n :
                     rows[i - 1].Revenue # 0
                        => rows[i].Revenue_Growth
                             = Fin(round_div((rows[i].Revenue - rows[i - 1].Revenue) * 10000,
                                             rows[i - 1].Revenue))
               /\ v.latest_month = Max(C16_Months)
               /\ v.latest_revenue = C16_Revenue(Max(C16_Months))
               /\ v.latest_growth = rows[n].Revenue_Growth
               /\ v.best_month \in C16_Months
               /\ v.best_revenue = C16_Revenue(v.best_month)
               /\ \A m \in C16_Months : C16_Revenue(m) <= v.best_revenue

\* the routine reported on three months given out of order: March as latest with
\* 150 and +50%, January, on two dates, as best with 200
C16_Witness ==
    /\ pc = "done"
    /\ response.routine = "Monthly"
    /\ df = ThreeMonths
    /\ Returned(response)
    /\ Len(response.out.value.dataframe) = 3
    /\ response.out.value.text.values.latest_month = 202403
    /\ response.out.value.text.values.latest_revenue = 150
    /\ response.out.value.text.values.latest_growth = Fin(5000)
    /\ response.out.value.text.values.best_month = 202401
    /\ response.out.value.text.values.best_revenue = 200

-----------------------------------------------------------------------------
(* Properties of the session, under Spec *)

\* C1: at most one turn of the transcript holds a live chart or table.
C1_AtMostOneLivePayload ==
    Cardinality({i \in 1..Len(messages) : live_payload(messages[i])}) <= 1

\* this run appended the assistant's result for the question before it
JustAnswered ==
    /\ Len(messages') > Len(messages)
    /\ Len(messages') >= 2
    /\ messages'[Len(messages')].role = "assistant"
    /\ messages'[Len(messages') - 1].role = "user"

\* what analyze_question returns, uncached, for each question of a session on
\* each table a session can hold
C5_Fresh ==
    [ q \in Range(ButtonQuestions) \cup SessionTyped,
      t \in {read_and_coerce(f) : f \in {g \in Files : g.parses}} |->
        analyze_question(q, t).out ]

\* C5: the result a run appends for a question is the one a fresh, uncached
\* analyze_question returns for that question on the table the session holds,
\* whatever was uploaded and asked before.
C5_AnswerComputedOnCurrentTable ==
    [][JustAnswered =>
          /\ data' # <<>>
          /\ LET n == Len(messages')
                 fresh == C5_Fresh[messages'[n - 1].content, data'[1]]
             IN  /\ fresh.raised = ""
                 /\ messages'[n] = assistant_message(fresh.value)]_vars

\* C6: a run that reports a load error leaves the session table, or its absence,
\* exactly as it was.
C6_LoadErrorKeepsTable == [][load_error' => data' = data]_vars

\* the welcome message: the assistant's turn appended without chart and dataframe keys
is_welcome(m) == m.role = "assistant" /\ DOMAIN m = {"role", "content"}

\* the number of turns of a transcript that satisfy a test
C17_Count(msgs, role) == Cardinality({i \in 1..Len(msgs) : msgs[i].role = role})

\* C17: at the end of every run a non-empty transcript does not end with a user
\* turn; every user question is immediately followed by one assistant result,
\* which is not followed by another; the result a run appends is the one computed
\* for the question on the table the session holds; a run that ends with no table
\* loaded adds no user question; and the transcript holds at most one welcome
\* message.
C17_TurnsAlternate ==
    [][LET msgs == messages'
           n == Len(msgs)
       IN  /\ n > 0 => msgs[n].role # "user"
           /\ \A i \in 1..n :
                 msgs[i].role = "user"
                    => /\ i < n
                       /\ msgs[i + 1].role = "assistant" /\ ~is_welcome(msgs[i + 1])
                       /\ i + 2 <= n => msgs[i + 2].role = "user"
           /\ JustAnswered
                 => /\ data' # <<>>
                    /\ C5_Fresh[msgs[n - 1].content, data'[1]].raised = ""
                    /\ msgs[n] = assistant_message(C5_Fresh[msgs[n - 1].content, data'[1]].value)
           /\ data' = <<>> => C17_Count(msgs, "user") = C17_Count(messages, "user")
           /\ Cardinality({i \in 1..n : is_welcome(msgs[i])}) <= 1]_vars

-----------------------------------------------------------------------------
(* Properties of the generator, under SpecGen *)

\* C10: every record has an inventory level, an integer in [100, 5000), exactly
\* when its category is Electronics or Apparel; a Services or Software record has
\* a null inventory level and return rate 0.
C10_InventoryOnlyForPhysicalGoods ==
    \A i \in 1..Len(records) :
        LET r == records[i]
        IN  /\ notna(r.Inventory_Level) <=> r.Category_Department \in {"Electronics", "Apparel"}
            /\ notna(r.Inventory_Level)
                  => r.Inventory_Level[1] >= 100 /\ r.Inventory_Level[1] < 5000
            /\ r.Category_Department \in {"Services", "Software"}
                  => r.Inventory_Level = NULL /\ r.Return_Rate_pct = 0

\* records of both kinds were generated: a Software one without inventory and an
\* Apparel one with the largest inventory that can be drawn
C10_Witness ==
    /\ \E i \in 1..Len(records) :
          /\ records[i].Category_Department = "Apparel"
          /\ records[i].Inventory_Level = <<4999>>

C15_Factors(r) ==
    << IF r.Region = "North" /\ r.Category_Department = "Electronics" THEN 23 ELSE 20,
       IF r.Region = "South" /\ r.Category_Department = "Apparel" THEN 24 ELSE 20,
       IF r.Campaign_Name = "Holiday Sale" THEN 25 ELSE 20,
       IF r.Campaign_Name = "Summer Sale" THEN 22 ELSE 20 >>

\* their product, and the power of twenty it is over
C15_Numerator(r) ==
    LET f == C15_Factors(r)
        n(i) == IF f[i] = 20 THEN 1 ELSE f[i]
    IN  n(1) * n(2) * n(3) * n(4)

C15_Denominator(r) ==
    LET f == C15_Factors(r)
        d(i) == IF f[i] = 20 THEN 1 ELSE 20
    IN  d(1) * d(2) * d(3) * d(4)

\* C15: the revenue of the record just built is units_sold * base_price times the
\* product of exactly the factors whose condition holds (1.15 for North and
\* Electronics, 1.2 for South and Apparel, 1.25 for a Holiday campaign, 1.1 for a
\* Summer campaign), and the emitted revenue, cost, profit and average order value
\* are derived from that revenue.
C15_RevenueIsBiasedProduct ==
    records # <<>> =>
        LET r == records[Len(records)]
            loc == iteration[1]
        IN  /\ loc.revenue
                  = ((loc.units_sold * loc.base_price * 1600) \div C15_Denominator(r))
                        * C15_Numerator(r)
            /\ r.Units_Sold = loc.units_sold
            /\ r.Revenue = round_cents(loc.revenue, 1)
            /\ loc.cost \in {(loc.revenue \div 4) * 2, (loc.revenue \div 4) * 3}
            /\ r.Cost = round_cents(loc.cost, 1)
            /\ r.Profit = round_cents(loc.revenue - loc.cost, 1)
            /\ r.Average_Order_Value = round_cents(loc.revenue, loc.units_sold)

\* a North, Electronics, Holiday record: 299 units at 800 with the two factors
\* 1.15 and 1.25 composed, revenue 343850.00 and average order value 1150.00
C15_Witness ==
    /\ records # <<>>
    /\ records[Len(records)].Region = "North"
    /\ records[Len(records)].Category_Department = "Electronics"
    /\ records[Len(records)].Campaign_Name = "Holiday Sale"
    /\ iteration[1].units_sold = 299
    /\ iteration[1].base_price = 800
    /\ records[Len(records)].Revenue = 34385000
    /\ records[Len(records)].Average_Order_Value = 115000
====
